---- MODULE Spec2Model ----
(***************************************************************************)
(* A model of the Factorio Prometheus exporter.                            *)
(*                                                                         *)
(*   Spec      the file-source collector of src/exporter.py: concurrent    *)
(*             scrapes of FactorioCollector.collect over a metrics file    *)
(*             that the game mod rewrites.                                 *)
(*   SpecRcon  the RCON design of src/collection/collectors.py: the        *)
(*             commanders' hot-reloaded commands, the autopauser thread    *)
(*             and concurrent scrapes of a group collector, all sharing    *)
(*             RCON_CLIENT_LOCK and one RCON client.                       *)
(***************************************************************************)
EXTENDS Integers, Sequences, FiniteSets, TLC

(***************************************************************************)
(* Bounds of the model.                                                    *)
(***************************************************************************)
\* number of threads of the HTTP server scraping the file-source collector
NumScrapes == 2
\* number of threads of the HTTP server scraping the RCON group collector
NumRconScrapes == 2
\* number of times the script file of a commander is modified
MaxMods == 2

Scrapes == 1..NumScrapes

\* the value of a lock nobody holds, and of a thread-local not yet assigned
NoOne == 0

(***************************************************************************)
(* JSON documents: a dict is a function from its keys; {} is the function  *)
(* with the empty domain.                                                  *)
(***************************************************************************)
EmptyDict == << >>

HasKey(d, k) == k \in DOMAIN d

\* Python dicts iterate in insertion order; the documents of the model are
\* written with their keys in this order.
KeyOrder ==
    << "player", "enemy", "nauvis", "vulcanus", "alice", "bob",
       "research", "fluids", "items", "rockets", "entities",
       "water", "iron-plate", "furnace", "satellite", "tree" >>

Keys(d) == SelectSeq(KeyOrder, LAMBDA k : k \in DOMAIN d)

RECURSIVE Flatten(_)
Flatten(ss) == IF ss = << >> THEN << >> ELSE Head(ss) \o Flatten(Tail(ss))

\* [F(k) for k in d], F giving a list: the lists joined in iteration order
ForEach(d, F(_)) == Flatten([i \in 1..Len(Keys(d)) |-> F(Keys(d)[i])])

\* int(bool)
IntOf(b) == IF b THEN 1 ELSE 0

(***************************************************************************)
(* Metric families of prometheus_client: add_metric appends a sample.      *)
(***************************************************************************)
Sample(labels, value) == [labels |-> labels, value |-> value]

Family(name, kind, labelkeys, samples) ==
    [name |-> name, kind |-> kind, labelkeys |-> labelkeys, samples |-> samples]

\* GaugeMetricFamily(name, doc, value=v): one sample without labels
GaugeValue(name, value) == Family(name, "gauge", << >>, << Sample(<< >>, value) >>)

\* src/exporter.py __get_exporter_error_metric: value=int(not successful)
ExporterErrorMetric(successful) ==
    GaugeValue("factorio_exporter_error", IntOf(~successful))

(***************************************************************************)
(* The translators of src/exporter.py.  Each is a generator that computes  *)
(* its families before its first yield: XRaises(d) is the condition under  *)
(* which a subscript raises KeyError, XFamilies(d) what it yields          *)
(* otherwise.                                                              *)
(***************************************************************************)
TimeRaises(d) ==
    \/ ~HasKey(d, "game")
    \/ ~HasKey(d["game"], "time")
    \/ ~HasKey(d["game"]["time"], "tick")

TimeFamilies(d) ==
    << GaugeValue("factorio_game_tick", d["game"]["time"]["tick"]) >>

PlayerRaises(d) ==
    \/ ~HasKey(d, "players")
    \/ \E u \in DOMAIN d["players"] : ~HasKey(d["players"][u], "connected")

PlayerFamilies(d) ==
    << Family("factorio_player_connected", "gauge", << "username" >>,
              ForEach(d["players"],
                      LAMBDA u : << Sample(<< u >>, IntOf(d["players"][u]["connected"])) >>)) >>

IsMaterial(type_name) == type_name \in {"fluids", "items"}

ForceRaises(d) ==
    \/ ~HasKey(d, "surfaces")
    \/ /\ d["surfaces"] # EmptyDict
       /\ \/ ~HasKey(d, "forces")
          \/ \E s \in DOMAIN d["surfaces"], f \in DOMAIN d["forces"] :
               \E t \in DOMAIN d["forces"][f] :
                 \/ /\ t = "research"
                    /\ ~HasKey(d["forces"][f]["research"], "progress")
                 \/ /\ IsMaterial(t)
                    /\ \/ ~HasKey(d["forces"][f][t], s)
                       \/ \E p \in DOMAIN d["forces"][f][t][s] :
                            \/ ~HasKey(d["forces"][f][t][s][p], "consumption")
                            \/ ~HasKey(d["forces"][f][t][s][p], "production")

\* counter samples labelled without the prototype name
ForcePrototypeSamplesUnnamed(d, field) ==
    ForEach(d["surfaces"], LAMBDA s :
      ForEach(d["forces"], LAMBDA f :
        ForEach(d["forces"][f], LAMBDA t :
          IF IsMaterial(t)
          THEN ForEach(d["forces"][f][t][s], LAMBDA p :
                 << Sample(<< f, s, t >>, d["forces"][f][t][s][p][field]) >>)
          ELSE << >>)))

\* the samples one of the two counter families gets: field is "consumption"
\* or "production"
ForcePrototypeSamples(d, field) ==
    ForEach(d["surfaces"], LAMBDA s :
      ForEach(d["forces"], LAMBDA f :
        ForEach(d["forces"][f], LAMBDA t :
          IF IsMaterial(t)
          THEN ForEach(d["forces"][f][t][s], LAMBDA p :
                 << Sample(<< f, p, s, t >>, d["forces"][f][t][s][p][field]) >>)
          ELSE << >>)))

\* the research sample is added inside the loop over the surfaces
ForceResearchSamples(d) ==
    ForEach(d["surfaces"], LAMBDA s :
      ForEach(d["forces"], LAMBDA f :
        ForEach(d["forces"][f], LAMBDA t :
          IF t = "research"
          THEN << Sample(<< f >>, d["forces"][f]["research"]["progress"]) >>
          ELSE << >>)))

ForceFamilies(d) ==
    << Family("factorio_force_prototype_consumption", "counter",
              << "force", "prototype", "surface", "type" >>,
              ForcePrototypeSamples(d, "consumption")),
       Family("factorio_force_prototype_production", "counter",
              << "force", "prototype", "surface", "type" >>,
              ForcePrototypeSamples(d, "production")),
       Family("factorio_force_research_progress", "gauge", << "force" >>,
              ForceResearchSamples(d)) >>

PollutionRaises(d) == ~HasKey(d, "pollution")

PollutionFamilies(d) ==
    << Family("factorio_pollution_production", "gauge", << "source", "surface" >>,
              ForEach(d["pollution"], LAMBDA s :
                ForEach(d["pollution"][s], LAMBDA e :
                  << Sample(<< e, s >>, d["pollution"][s][e]) >>))) >>

SurfaceRaises(d) ==
    \/ ~HasKey(d, "surfaces")
    \/ \E s \in DOMAIN d["surfaces"] :
         \/ ~HasKey(d["surfaces"][s], "pollution")
         \/ ~HasKey(d["surfaces"][s], "ticks_per_day")

SurfaceFamilies(d) ==
    << Family("factorio_surface_pollution_total", "gauge", << "surface" >>,
              ForEach(d["surfaces"], LAMBDA s :
                << Sample(<< s >>, d["surfaces"][s]["pollution"]) >>)),
       Family("factorio_surface_ticks_per_day", "gauge", << "surface" >>,
              ForEach(d["surfaces"], LAMBDA s :
                << Sample(<< s >>, d["surfaces"][s]["ticks_per_day"]) >>)) >>

EntityRaises(d) ==
    \/ ~HasKey(d, "surfaces")
    \/ \E s \in DOMAIN d["surfaces"] : ~HasKey(d["surfaces"][s], "entities")

EntityFamilies(d) ==
    << Family("factorio_entity_count", "gauge", << "force", "name", "surface" >>,
              ForEach(d["surfaces"], LAMBDA s :
                ForEach(d["surfaces"][s]["entities"], LAMBDA e :
                  << Sample(<< "player", e, s >>, d["surfaces"][s]["entities"][e]) >>))) >>

RocketRaises(d) ==
    \/ ~HasKey(d, "forces")
    \/ ~HasKey(d["forces"], "player")
    \/ ~HasKey(d["forces"]["player"], "rockets")
    \/ ~HasKey(d["forces"]["player"]["rockets"], "launches")
    \/ ~HasKey(d["forces"]["player"]["rockets"], "items")

RocketFamilies(d) ==
    << Family("factorio_rockets_launched", "gauge", << "force" >>,
              << Sample(<< "player" >>, d["forces"]["player"]["rockets"]["launches"]) >>),
       Family("factorio_items_launched", "gauge", << "force", "name" >>,
              ForEach(d["forces"]["player"]["rockets"]["items"], LAMBDA n :
                << Sample(<< "player", n >>,
                          d["forces"]["player"]["rockets"]["items"][n]) >>)) >>

\* the translators in the order collect runs them
Groups == << "time", "player", "force", "pollution", "surface", "entity", "rocket" >>

GroupRaises(g, d) ==
    CASE g = "time"      -> TimeRaises(d)
      [] g = "player"    -> PlayerRaises(d)
      [] g = "force"     -> ForceRaises(d)
      [] g = "pollution" -> PollutionRaises(d)
      [] g = "surface"   -> SurfaceRaises(d)
      [] g = "entity"    -> EntityRaises(d)
      [] g = "rocket"    -> RocketRaises(d)

GroupFamilies(g, d) ==
    CASE g = "time"      -> TimeFamilies(d)
      [] g = "player"    -> PlayerFamilies(d)
      [] g = "force"     -> ForceFamilies(d)
      [] g = "pollution" -> PollutionFamilies(d)
      [] g = "surface"   -> SurfaceFamilies(d)
      [] g = "entity"    -> EntityFamilies(d)
      [] g = "rocket"    -> RocketFamilies(d)

(***************************************************************************)
(* The metrics file of the file-source collector.  The texts the mod (or   *)
(* an operator) may leave in it: JSON documents and text that is not JSON. *)
(***************************************************************************)
DocFull ==
    [game     |-> [time |-> [tick |-> 7]],
     players  |-> [alice |-> [connected |-> TRUE], bob |-> [connected |-> FALSE]],
     forces   |-> [player |->
                     [research |-> [progress |-> 1],
                      items    |-> [nauvis |->
                                      ("iron-plate" :> [consumption |-> 3, production |-> 5])],
                      rockets  |-> [launches |-> 2, items |-> [satellite |-> 1]]]],
     surfaces |-> [nauvis |-> [pollution |-> 9, ticks_per_day |-> 25000,
                               entities |-> [furnace |-> 4]]],
     pollution |-> [nauvis |-> [furnace |-> 6]]]

\* the snapshot of the round-trip property of the specification
DocRoundTrip ==
    [game |-> [time |-> [tick |-> 42]], players |-> EmptyDict, forces |-> EmptyDict,
     surfaces |-> EmptyDict, pollution |-> EmptyDict]

\* a snapshot without the players key
DocNoPlayers == [k \in (DOMAIN DocFull) \ {"players"} |-> DocFull[k]]

Docs == {DocFull, DocRoundTrip, DocNoPlayers}

JsonText(d) == [json |-> d]
Garbage == [garbage |-> "{ not json"]
Texts == {JsonText(d) : d \in Docs} \cup {Garbage}

\* json.load: the document, or JSONDecodeError
ParseOk(text) == HasKey(text, "json")
ParseDoc(text) == text["json"]

Missing == [kind |-> "missing"]
Denied == [kind |-> "denied"]
Readable(text) == [kind |-> "file", text |-> text]
FileStates == {Missing, Denied} \cup {Readable(t) : t \in Texts}

(***************************************************************************)
(* State.                                                                  *)
(***************************************************************************)
VARIABLES
    \* src/exporter.py
    metrics_file,   \* the file at metrics_path
    metrics_data,   \* FactorioCollector.metrics_data
    metrics_lock,   \* FactorioCollector.metrics_lock: its holder, or NoOne
    pc,             \* where each scrape is in collect
    handle,         \* the text a scrape's open file had when it was opened
    success,        \* collect's local success
    acquired,       \* the document the scrape's own json.load returned
    idx,            \* the translator of Groups the scrape runs next
    source,         \* the document the scrape's translators read
    emitted,        \* the families the scrape has yielded, in order
    raised          \* whether an exception left the scrape's collect

fileVars == << metrics_file, metrics_data, metrics_lock, pc, handle, success,
               acquired, idx, source, emitted, raised >>

VARIABLES
    \* src/collection/collectors.py
    script,         \* the Lua script file of each commander
    command,        \* FactorioCommander.command
    mods,           \* how many times a script was modified
    pending,        \* FileModifiedEvents queued for each commander's observer
    ctor,           \* where each commander's __init__ is
    ctor_text,      \* the text read by the on_modified call of __init__
    obs,            \* where each commander's observer thread is
    obs_text,       \* the text read by the on_modified call of the observer
    escaped,        \* an exception left on_modified into the observer thread
    rcon_lock,      \* RCON_CLIENT_LOCK: its holder, or NoOne
    inflight,       \* the threads inside client.send_command
    sent,           \* the command each commander has on the connection
    pacer_pc,       \* where the autopauser's thread is in run
    rpc,            \* where each scrape of the collector is
    raw,            \* the reply a scrape received
    remitted,       \* the families the scrape has yielded
    rraised,        \* whether an exception left the scrape's collect
    reloaded,       \* the text of the latest reload each observer completed
    interval,       \* FactorioAutopauser.interval, in milliseconds
    slept           \* the delay of the time.sleep that run just made, in milliseconds

rconVars == << script, command, mods, pending, ctor, ctor_text, obs, obs_text,
               escaped, rcon_lock, inflight, sent, pacer_pc, rpc, raw, remitted,
               rraised, reloaded, interval, slept >>

VARIABLES
    \* the translators taken alone, as functions of the document they read
    params,         \* what the document holds: its surfaces, forces, research
    applied,        \* the translator that ran, of which design
    output,         \* the metric families it yielded
    failed          \* whether it raised

pureVars == << params, applied, output, failed >>

vars == << fileVars, rconVars, pureVars >>

\* a thread-local that holds no document
NoDoc == [nodoc |-> TRUE]

InitFile ==
    /\ metrics_file \in FileStates
    /\ metrics_data = EmptyDict
    /\ metrics_lock = NoOne
    /\ pc = [s \in Scrapes |-> "idle"]
    /\ handle = [s \in Scrapes |-> NoDoc]
    /\ success = [s \in Scrapes |-> FALSE]
    /\ acquired = [s \in Scrapes |-> NoDoc]
    /\ idx = [s \in Scrapes |-> 0]
    /\ source = [s \in Scrapes |-> NoDoc]
    /\ emitted = [s \in Scrapes |-> << >>]
    /\ raised = [s \in Scrapes |-> FALSE]

(***************************************************************************)
(* The mod, or an operator, replaces, removes or protects the file.        *)
(***************************************************************************)
WriteFile ==
    /\ \E f \in FileStates \ {metrics_file} : metrics_file' = f
    /\ UNCHANGED << metrics_data, metrics_lock, pc, handle, success, acquired,
                    idx, source, emitted, raised >>
    /\ UNCHANGED << rconVars, pureVars >>

(***************************************************************************)
(* collect, line 219: __load_metrics_data opens the file.  A missing or    *)
(* protected file makes it return False, and collect yields the error      *)
(* metric (line 220).                                                      *)
(***************************************************************************)
Open(s) ==
    /\ pc[s] = "idle"
    /\ IF metrics_file["kind"] = "file"
       THEN /\ handle' = [handle EXCEPT ![s] = metrics_file["text"]]
            /\ pc' = [pc EXCEPT ![s] = "opened"]
            /\ UNCHANGED << success, emitted >>
       ELSE /\ success' = [success EXCEPT ![s] = FALSE]
            /\ emitted' = [emitted EXCEPT ![s] = << ExporterErrorMetric(FALSE) >>]
            /\ pc' = [pc EXCEPT ![s] = "yielded"]
            /\ UNCHANGED handle
    /\ UNCHANGED << metrics_file, metrics_data, metrics_lock, acquired, idx,
                    source, raised >>
    /\ UNCHANGED << rconVars, pureVars >>

\* what json.load can read from the open file: the text it had when it was
\* opened (the file was replaced or removed since) or the text it has now
\* (the file was rewritten in place)
ReadableTexts(s) ==
    {handle[s]} \cup (IF metrics_file["kind"] = "file" THEN {metrics_file["text"]} ELSE {})

\* lines 51-52: the assignment of the parsed document, made under the lock
StoreMetricsData(s, doc) ==
    /\ metrics_lock = NoOne
    /\ metrics_data' = doc

\* a load whose except branch resets the stored document
LoadClearingOnFailure(s) ==
    /\ pc[s] = "opened"
    /\ metrics_lock = NoOne
    /\ \E text \in ReadableTexts(s) :
         IF ParseOk(text)
         THEN /\ StoreMetricsData(s, ParseDoc(text))
              /\ acquired' = [acquired EXCEPT ![s] = ParseDoc(text)]
              /\ success' = [success EXCEPT ![s] = TRUE]
              /\ emitted' = [emitted EXCEPT ![s] = << ExporterErrorMetric(TRUE) >>]
         ELSE /\ success' = [success EXCEPT ![s] = FALSE]
              /\ emitted' = [emitted EXCEPT ![s] = << ExporterErrorMetric(FALSE) >>]
              /\ metrics_data' = EmptyDict
              /\ UNCHANGED acquired
    /\ pc' = [pc EXCEPT ![s] = "yielded"]
    /\ handle' = [handle EXCEPT ![s] = NoDoc]
    /\ UNCHANGED << metrics_file, metrics_lock, idx, source, raised >>
    /\ UNCHANGED << rconVars, pureVars >>

(***************************************************************************)
(* __load_metrics_data, lines 51-63, and the yield of line 220.            *)
(***************************************************************************)
Load(s) ==
    /\ pc[s] = "opened"
    /\ metrics_lock = NoOne
    /\ \E text \in ReadableTexts(s) :
         IF ParseOk(text)
         THEN /\ StoreMetricsData(s, ParseDoc(text))
              /\ acquired' = [acquired EXCEPT ![s] = ParseDoc(text)]
              /\ success' = [success EXCEPT ![s] = TRUE]
              /\ emitted' = [emitted EXCEPT ![s] = << ExporterErrorMetric(TRUE) >>]
         ELSE /\ success' = [success EXCEPT ![s] = FALSE]
              /\ emitted' = [emitted EXCEPT ![s] = << ExporterErrorMetric(FALSE) >>]
              /\ UNCHANGED << metrics_data, acquired >>
    /\ pc' = [pc EXCEPT ![s] = "yielded"]
    /\ handle' = [handle EXCEPT ![s] = NoDoc]
    /\ UNCHANGED << metrics_file, metrics_lock, idx, source, raised >>
    /\ UNCHANGED << rconVars, pureVars >>

(***************************************************************************)
(* collect, line 223: with self.metrics_lock, whatever success is.         *)
(***************************************************************************)
LockMetrics(s) ==
    /\ pc[s] = "yielded"
    /\ metrics_lock = NoOne
    /\ metrics_lock' = s
    /\ pc' = [pc EXCEPT ![s] = "translating"]
    /\ idx' = [idx EXCEPT ![s] = 1]
    /\ source' = [source EXCEPT ![s] = metrics_data]
    /\ UNCHANGED << metrics_file, metrics_data, handle, success, acquired,
                    emitted, raised >>
    /\ UNCHANGED << rconVars, pureVars >>

\* a translation whose KeyError leaves collect without releasing the lock
TranslateKeepingLock(s) ==
    /\ pc[s] = "translating"
    /\ idx[s] <= Len(Groups)
    /\ IF GroupRaises(Groups[idx[s]], metrics_data)
       THEN /\ raised' = [raised EXCEPT ![s] = TRUE]
            /\ pc' = [pc EXCEPT ![s] = "done"]
            /\ UNCHANGED << idx, emitted, metrics_lock >>
       ELSE /\ emitted' = [emitted EXCEPT
                             ![s] = @ \o GroupFamilies(Groups[idx[s]], metrics_data)]
            /\ idx' = [idx EXCEPT ![s] = @ + 1]
            /\ UNCHANGED << raised, metrics_lock, pc >>
    /\ UNCHANGED << metrics_file, metrics_data, handle, success, acquired, source >>
    /\ UNCHANGED << rconVars, pureVars >>

(***************************************************************************)
(* collect, lines 225-231: the next translator runs over metrics_data and  *)
(* its families are yielded; a KeyError leaves the with block and collect. *)
(***************************************************************************)
Translate(s) ==
    /\ pc[s] = "translating"
    /\ idx[s] <= Len(Groups)
    /\ IF GroupRaises(Groups[idx[s]], metrics_data)
       THEN /\ raised' = [raised EXCEPT ![s] = TRUE]
            /\ metrics_lock' = NoOne
            /\ pc' = [pc EXCEPT ![s] = "done"]
            /\ UNCHANGED << idx, emitted >>
       ELSE /\ emitted' = [emitted EXCEPT
                             ![s] = @ \o GroupFamilies(Groups[idx[s]], metrics_data)]
            /\ idx' = [idx EXCEPT ![s] = @ + 1]
            /\ UNCHANGED << raised, metrics_lock, pc >>
    /\ UNCHANGED << metrics_file, metrics_data, handle, success, acquired, source >>
    /\ UNCHANGED << rconVars, pureVars >>

(***************************************************************************)
(* collect, line 232: resumed after the last yield, the generator leaves   *)
(* the with block and ends.                                                *)
(***************************************************************************)
Finish(s) ==
    /\ pc[s] = "translating"
    /\ idx[s] > Len(Groups)
    /\ metrics_lock' = NoOne
    /\ pc' = [pc EXCEPT ![s] = "done"]
    /\ UNCHANGED << metrics_file, metrics_data, handle, success, acquired, idx,
                    source, emitted, raised >>
    /\ UNCHANGED << rconVars, pureVars >>

(***************************************************************************)
(* The thread serves its next scrape: a new call of collect.               *)
(***************************************************************************)
NextScrape(s) ==
    /\ pc[s] = "done"
    /\ pc' = [pc EXCEPT ![s] = "idle"]
    /\ handle' = [handle EXCEPT ![s] = NoDoc]
    /\ success' = [success EXCEPT ![s] = FALSE]
    /\ acquired' = [acquired EXCEPT ![s] = NoDoc]
    /\ idx' = [idx EXCEPT ![s] = 0]
    /\ source' = [source EXCEPT ![s] = NoDoc]
    /\ emitted' = [emitted EXCEPT ![s] = << >>]
    /\ raised' = [raised EXCEPT ![s] = FALSE]
    /\ UNCHANGED << metrics_file, metrics_data, metrics_lock >>
    /\ UNCHANGED << rconVars, pureVars >>

NextFile ==
    \/ WriteFile
    \/ \E s \in Scrapes : Open(s)
    \/ \E s \in Scrapes : Load(s)
    \/ \E s \in Scrapes : LockMetrics(s)
    \/ \E s \in Scrapes : Translate(s)
    \/ \E s \in Scrapes : Finish(s)
    \/ \E s \in Scrapes : NextScrape(s)

(***************************************************************************)
(* The RCON design of src/collection/collectors.py.                        *)
(*                                                                         *)
(* Two commanders share the RCON client: the autopauser, whose thread      *)
(* sends its command in a loop, and a group collector (the research        *)
(* collector), scraped by the threads of the HTTP server.  Each commander  *)
(* watches its own Lua script with its own observer thread.                *)
(***************************************************************************)
Commanders == {"autopauser", "research"}

RconScrapes == 1..NumRconScrapes
\* the autopauser's thread, as a holder of RCON_CLIENT_LOCK
Pacer == NumRconScrapes + 1

\* the collector the scrapes are made on
Collector == "research"

\* texts of a Lua script
ScriptTexts == {"rcon.print(1)", "rcon.print(2)"}
\* the text of the scripts the package ships under lua/
ShippedText == "rcon.print(1)"
Script(text) == [kind |-> "file", text |-> text]
\* the script cannot be read (permissions changed, file being replaced)
Unreadable == [kind |-> "unreadable"]
ScriptStates == {Script(t) : t \in ScriptTexts} \cup {Unreadable}

\* _build_command, line 52: the f-string
BuildCommand(text) == "/silent-command " \o text

\* replies of the server to the research script
ReplyDoc == [metrics |-> [forces |-> [player |-> [research |-> [progress |-> 1]]]]]
Replies == {JsonText(ReplyDoc), Garbage}

\* FactorioResearchCollector.collect over self.metrics
ResearchRaises(metrics) ==
    \/ ~HasKey(metrics, "forces")
    \/ \E f \in DOMAIN metrics["forces"] :
         \/ ~HasKey(metrics["forces"][f], "research")
         \/ ~HasKey(metrics["forces"][f]["research"], "progress")

ResearchFamilies(metrics) ==
    << Family("factorio_force_research_progress", "gauge", << "force" >>,
              ForEach(metrics["forces"], LAMBDA f :
                << Sample(<< f >>, metrics["forces"][f]["research"]["progress"]) >>)) >>

NoText == ""
NoReply == [noreply |-> TRUE]

\* the interval argument of FactorioAutopauser.__init__: None, or a timedelta;
\* NoInterval is also the attribute before line 76 assigned it
NoInterval == [given |-> FALSE]
Timedelta(ms) == [given |-> TRUE, ms |-> ms]
IntervalArgs == {NoInterval, Timedelta(1500)}

\* line 74: datetime.timedelta(milliseconds=100)
DefaultIntervalMs == 100

\* lines 73-76
AutopauserInterval(arg) == IF arg["given"] THEN arg ELSE Timedelta(DefaultIntervalMs)

\* timedelta.seconds: the whole seconds of the timedelta within its day
TimedeltaSeconds(ms) == (ms \div 1000) % 86400

\* line 88: the delay of time.sleep(self.interval.seconds), in milliseconds
SleepDelay(ms) == 1000 * TimedeltaSeconds(ms)

\* the loop of run is not between a time.sleep and its next send
NoSleep == [slept |-> FALSE]
Slept(ms) == [slept |-> TRUE, ms |-> ms]

(***************************************************************************)
(* The commanders right after observer.start() (line 48): the command was  *)
(* built from the script by line 39, and __init__ is about to call         *)
(* on_modified itself (line 49).                                           *)
(***************************************************************************)
InitRcon ==
    /\ script = [c \in Commanders |-> Script(ShippedText)]
    /\ command = [c \in Commanders |-> BuildCommand(script[c]["text"])]
    /\ mods = 0
    /\ pending = [c \in Commanders |-> 0]
    /\ ctor = [c \in Commanders |-> "synthetic"]
    /\ ctor_text = [c \in Commanders |-> NoText]
    /\ obs = [c \in Commanders |-> "idle"]
    /\ obs_text = [c \in Commanders |-> NoText]
    /\ escaped = [c \in Commanders |-> FALSE]
    /\ rcon_lock = NoOne
    /\ inflight = {}
    /\ sent = [c \in Commanders |-> NoText]
    /\ pacer_pc = "new"
    /\ rpc = [r \in RconScrapes |-> "idle"]
    /\ raw = [r \in RconScrapes |-> NoReply]
    /\ remitted = [r \in RconScrapes |-> << >>]
    /\ rraised = [r \in RconScrapes |-> FALSE]
    /\ reloaded = [c \in Commanders |-> NoText]
    /\ interval = NoInterval
    /\ slept = NoSleep

(***************************************************************************)
(* Somebody modifies a commander's script; the observer queues a           *)
(* FileModifiedEvent for the commander.                                    *)
(***************************************************************************)
ModifyScript(c) ==
    /\ mods < MaxMods
    /\ mods' = mods + 1
    /\ \E f \in ScriptStates \ {script[c]} : script' = [script EXCEPT ![c] = f]
    /\ pending' = [pending EXCEPT ![c] = @ + 1]
    /\ UNCHANGED << command, ctor, ctor_text, obs, obs_text, escaped, rcon_lock,
                    inflight, sent, pacer_pc, rpc, raw, remitted, rraised >>
    /\ UNCHANGED << fileVars, pureVars >>
    /\ UNCHANGED << reloaded, interval >>
    /\ UNCHANGED slept

\* line 52, the assignment of the attribute
SetCommand(c, text) == command' = [command EXCEPT ![c] = BuildCommand(text)]

(***************************************************************************)
(* __init__, line 49: on_modified called from the constructing thread.     *)
(* _build_command first reads the script (read_text releases the GIL)...   *)
(***************************************************************************)
CtorRead(c) ==
    /\ ctor[c] = "synthetic"
    /\ IF script[c]["kind"] = "file"
       THEN /\ ctor_text' = [ctor_text EXCEPT ![c] = script[c]["text"]]
            /\ ctor' = [ctor EXCEPT ![c] = "assign"]
       ELSE \* the exception leaves __init__: the commander is not built
            /\ ctor' = [ctor EXCEPT ![c] = "failed"]
            /\ UNCHANGED ctor_text
    /\ UNCHANGED << script, command, mods, pending, obs, obs_text, escaped,
                    rcon_lock, inflight, sent, pacer_pc, rpc, raw, remitted, rraised >>
    /\ UNCHANGED << fileVars, pureVars >>
    /\ UNCHANGED << reloaded, interval >>
    /\ UNCHANGED slept

\* ... and then assigns self.command.
CtorAssign(c) ==
    /\ ctor[c] = "assign"
    /\ SetCommand(c, ctor_text[c])
    /\ ctor' = [ctor EXCEPT ![c] = "done"]
    /\ ctor_text' = [ctor_text EXCEPT ![c] = NoText]
    /\ UNCHANGED << script, mods, pending, obs, obs_text, escaped, rcon_lock,
                    inflight, sent, pacer_pc, rpc, raw, remitted, rraised >>
    /\ UNCHANGED << fileVars, pureVars >>
    /\ UNCHANGED << reloaded, interval >>
    /\ UNCHANGED slept

(***************************************************************************)
(* The observer thread takes an event and calls on_modified (lines 54-58), *)
(* which reads the script.  on_modified catches nothing: when the script   *)
(* cannot be read the exception leaves it and ends the observer thread.    *)
(***************************************************************************)
ObsRead(c) ==
    /\ obs[c] = "idle"
    /\ pending[c] > 0
    /\ pending' = [pending EXCEPT ![c] = @ - 1]
    /\ IF script[c]["kind"] = "file"
       THEN /\ obs_text' = [obs_text EXCEPT ![c] = script[c]["text"]]
            /\ obs' = [obs EXCEPT ![c] = "assign"]
            /\ UNCHANGED escaped
       ELSE /\ escaped' = [escaped EXCEPT ![c] = TRUE]
            /\ obs' = [obs EXCEPT ![c] = "dead"]
            /\ UNCHANGED obs_text
    /\ UNCHANGED << script, command, mods, ctor, ctor_text, rcon_lock, inflight,
                    sent, pacer_pc, rpc, raw, remitted, rraised >>
    /\ UNCHANGED << fileVars, pureVars >>
    /\ UNCHANGED << reloaded, interval >>
    /\ UNCHANGED slept

ObsAssign(c) ==
    /\ obs[c] = "assign"
    /\ SetCommand(c, obs_text[c])
    /\ obs' = [obs EXCEPT ![c] = "idle"]
    /\ obs_text' = [obs_text EXCEPT ![c] = NoText]
    /\ UNCHANGED << script, mods, pending, ctor, ctor_text, escaped, rcon_lock,
                    inflight, sent, pacer_pc, rpc, raw, remitted, rraised >>
    /\ UNCHANGED << fileVars, pureVars >>
    /\ reloaded' = [reloaded EXCEPT ![c] = obs_text[c]]
    /\ UNCHANGED interval
    /\ UNCHANGED slept

\* a thread that enters the block without waiting for the lock
AcquireWithoutWaiting(t) == rcon_lock' = t

(***************************************************************************)
(* with RCON_CLIENT_LOCK (lines 86 and 118): thread t takes the lock.      *)
(***************************************************************************)
AcquireRconLock(t) ==
    /\ rcon_lock = NoOne
    /\ rcon_lock' = t

\* client.send_command begins: the command is written to the connection
BeginSend(t, c) ==
    /\ inflight' = inflight \cup {t}
    /\ sent' = [sent EXCEPT ![c] = command[c]]

\* client.send_command ends (a reply or an exception) and the with block
\* is left
EndSend(t, c) ==
    /\ inflight' = inflight \ {t}
    /\ sent' = [sent EXCEPT ![c] = NoText]
    /\ rcon_lock' = NoOne

(***************************************************************************)
(* FactorioAutopauser.start and run (lines 78-88).                         *)
(***************************************************************************)
\* FactorioAutopauser.__init__ after super().__init__ returned: line 76
AutopauserInit ==
    /\ ctor["autopauser"] = "done"
    /\ interval = NoInterval
    /\ \E arg \in IntervalArgs : interval' = AutopauserInterval(arg)
    /\ UNCHANGED << script, command, mods, pending, ctor, ctor_text, obs, obs_text,
                    escaped, rcon_lock, inflight, sent, pacer_pc, rpc, raw,
                    remitted, rraised, reloaded, slept >>
    /\ UNCHANGED << fileVars, pureVars >>

PacerStart ==
    /\ pacer_pc = "new"
    /\ interval # NoInterval
    /\ pacer_pc' = "acquire"
    /\ UNCHANGED << script, command, mods, pending, ctor, ctor_text, obs, obs_text,
                    escaped, rcon_lock, inflight, sent, rpc, raw, remitted, rraised >>
    /\ UNCHANGED << fileVars, pureVars >>
    /\ UNCHANGED << reloaded, interval >>
    /\ UNCHANGED slept

\* lines 86-87: the lock is taken and self.send() begins
PacerSend ==
    /\ pacer_pc = "acquire"
    /\ AcquireRconLock(Pacer)
    /\ BeginSend(Pacer, "autopauser")
    /\ pacer_pc' = "sending"
    /\ UNCHANGED << script, command, mods, pending, ctor, ctor_text, obs, obs_text,
                    escaped, rpc, raw, remitted, rraised >>
    /\ UNCHANGED << fileVars, pureVars >>
    /\ UNCHANGED << reloaded, interval >>
    /\ slept' = NoSleep

\* the reply is dropped; an exception of send_command leaves the with block
\* and the while loop: run returns and the thread ends
PacerReply ==
    /\ pacer_pc = "sending"
    /\ EndSend(Pacer, "autopauser")
    /\ \E ok \in BOOLEAN : pacer_pc' = IF ok THEN "sleep" ELSE "terminated"
    /\ UNCHANGED << script, command, mods, pending, ctor, ctor_text, obs, obs_text,
                    escaped, rpc, raw, remitted, rraised >>
    /\ UNCHANGED << fileVars, pureVars >>
    /\ UNCHANGED << reloaded, interval >>
    /\ UNCHANGED slept

\* time.sleep (line 88)
PacerSleep ==
    /\ pacer_pc = "sleep"
    /\ pacer_pc' = "acquire"
    /\ UNCHANGED << script, command, mods, pending, ctor, ctor_text, obs, obs_text,
                    escaped, rcon_lock, inflight, sent, rpc, raw, remitted, rraised >>
    /\ UNCHANGED << fileVars, pureVars >>
    /\ UNCHANGED << reloaded, interval >>
    /\ slept' = Slept(SleepDelay(interval["ms"]))

(***************************************************************************)
(* A scrape of the collector: collect reads self.metrics, which reads      *)
(* self.response, which reads self.raw (lines 115-131).  The collector is  *)
(* registered once its __init__ is over (line 104).                        *)
(***************************************************************************)
\* lines 118-119: the lock is taken and send_command begins
RawSend(r) ==
    /\ rpc[r] = "idle"
    /\ ctor[Collector] = "done"
    /\ AcquireRconLock(r)
    /\ BeginSend(r, Collector)
    /\ rpc' = [rpc EXCEPT ![r] = "sending"]
    /\ UNCHANGED << script, command, mods, pending, ctor, ctor_text, obs, obs_text,
                    escaped, pacer_pc, raw, remitted, rraised >>
    /\ UNCHANGED << fileVars, pureVars >>
    /\ UNCHANGED << reloaded, interval >>
    /\ UNCHANGED slept

\* send_command returns a reply, or raises: the exception leaves collect
\* before anything was yielded
RawReply(r) ==
    /\ rpc[r] = "sending"
    /\ EndSend(r, Collector)
    /\ \/ \E reply \in Replies :
            /\ raw' = [raw EXCEPT ![r] = reply]
            /\ rpc' = [rpc EXCEPT ![r] = "received"]
            /\ UNCHANGED rraised
       \/ /\ rraised' = [rraised EXCEPT ![r] = TRUE]
          /\ rpc' = [rpc EXCEPT ![r] = "done"]
          /\ UNCHANGED raw
    /\ UNCHANGED << script, command, mods, pending, ctor, ctor_text, obs, obs_text,
                    escaped, pacer_pc, remitted >>
    /\ UNCHANGED << fileVars, pureVars >>
    /\ UNCHANGED << reloaded, interval >>
    /\ UNCHANGED slept

\* json.loads(self.raw), ["metrics"] and the translation of the collector
Collect(r) ==
    /\ rpc[r] = "received"
    /\ IF /\ ParseOk(raw[r])
          /\ HasKey(ParseDoc(raw[r]), "metrics")
          /\ ~ResearchRaises(ParseDoc(raw[r])["metrics"])
       THEN /\ remitted' = [remitted EXCEPT
                              ![r] = ResearchFamilies(ParseDoc(raw[r])["metrics"])]
            /\ UNCHANGED rraised
       ELSE /\ rraised' = [rraised EXCEPT ![r] = TRUE]
            /\ UNCHANGED remitted
    /\ rpc' = [rpc EXCEPT ![r] = "done"]
    /\ raw' = [raw EXCEPT ![r] = NoReply]
    /\ UNCHANGED << script, command, mods, pending, ctor, ctor_text, obs, obs_text,
                    escaped, rcon_lock, inflight, sent, pacer_pc >>
    /\ UNCHANGED << fileVars, pureVars >>
    /\ UNCHANGED << reloaded, interval >>
    /\ UNCHANGED slept

\* the thread serves its next scrape
NextRconScrape(r) ==
    /\ rpc[r] = "done"
    /\ rpc' = [rpc EXCEPT ![r] = "idle"]
    /\ remitted' = [remitted EXCEPT ![r] = << >>]
    /\ rraised' = [rraised EXCEPT ![r] = FALSE]
    /\ UNCHANGED << script, command, mods, pending, ctor, ctor_text, obs, obs_text,
                    escaped, rcon_lock, inflight, sent, pacer_pc, raw >>
    /\ UNCHANGED << fileVars, pureVars >>
    /\ UNCHANGED << reloaded, interval >>
    /\ UNCHANGED slept

NextRcon ==
    \/ \E c \in Commanders : ModifyScript(c)
    \/ \E c \in Commanders : CtorRead(c)
    \/ \E c \in Commanders : CtorAssign(c)
    \/ \E c \in Commanders : ObsRead(c)
    \/ \E c \in Commanders : ObsAssign(c)
    \/ AutopauserInit
    \/ PacerStart
    \/ PacerSend
    \/ PacerReply
    \/ PacerSleep
    \/ \E r \in RconScrapes : RawSend(r)
    \/ \E r \in RconScrapes : RawReply(r)
    \/ \E r \in RconScrapes : Collect(r)
    \/ \E r \in RconScrapes : NextRconScrape(r)

(***************************************************************************)
(* The translators taken alone.  The documents are generated from the      *)
(* surfaces, the forces and the forces with a research entry they hold;    *)
(* the same content is laid out as the snapshot file of src/exporter.py    *)
(* and as the replies the group scripts of src/collection print.           *)
(***************************************************************************)
SurfaceNames == {"nauvis", "vulcanus"}
ForceNames == {"player", "enemy"}

Params ==
    { p \in [surfaces : SUBSET SurfaceNames, forces : SUBSET ForceNames,
             research : SUBSET ForceNames] : p["research"] \subseteq p["forces"] }

NoParams == [surfaces |-> {}, forces |-> {}, research |-> {}]

\* the entry of force f in the forces map of the snapshot file
ForceData(p, f) ==
    [k \in {"fluids", "items", "rockets"} \cup
           (IF f \in p["research"] THEN {"research"} ELSE {}) |->
        CASE k = "research" -> [progress |-> 1]
          [] k = "fluids" ->
               [s \in p["surfaces"] |-> [water |-> [consumption |-> 2, production |-> 2]]]
          [] k = "items" ->
               [s \in p["surfaces"] |->
                   ("iron-plate" :> [consumption |-> 3, production |-> 5])]
          [] k = "rockets" -> [launches |-> 2, items |-> [satellite |-> 1]]]

\* the snapshot file of src/exporter.py
Snapshot(p) ==
    [game      |-> [time |-> [tick |-> 7]],
     players   |-> [alice |-> [connected |-> TRUE], bob |-> [connected |-> FALSE]],
     forces    |-> [f \in p["forces"] |-> ForceData(p, f)],
     surfaces  |-> [s \in p["surfaces"] |->
                      [pollution |-> 9, ticks_per_day |-> 25000,
                       entities |-> [furnace |-> 4]]],
     pollution |-> [s \in p["surfaces"] |-> [furnace |-> 6]]]

\* the groups of src/collection/collectors.py, one collector class each
RconGroups ==
    << "time", "player", "launches", "research", "production", "entities",
       "pollution" >>

\* self.metrics of the collector of a group
RconMetrics(group, p) ==
    CASE group = "time" ->
           [time |-> [ticks |-> [current |-> 7, played |-> 7, paused |-> 0]],
            surfaces |-> [s \in p["surfaces"] |-> [time |-> [ticks_per_day |-> 25000]]]]
      [] group = "player" ->
           [players |-> [alice |-> [connected |-> TRUE], bob |-> [connected |-> FALSE]]]
      [] group = "launches" ->
           [forces |-> [f \in p["forces"] |->
                          [launches |-> [count |-> 2, items |-> [satellite |-> 1]]]]]
      [] group = "research" ->
           [forces |-> [f \in p["forces"] |->
                          IF f \in p["research"]
                          THEN [research |-> [progress |-> 1]]
                          ELSE EmptyDict]]
      [] group = "production" ->
           [forces |-> [f \in p["forces"] |-> [s \in p["surfaces"] |->
              [prototypes |->
                 ("iron-plate" :> [type |-> "items", consumption |-> 3, production |-> 5])
                 @@ ("water" :> [type |-> "fluids", consumption |-> 2, production |-> 2])]]]]
      [] group = "entities" ->
           [forces |-> [f \in p["forces"] |-> [s \in p["surfaces"] |->
              [entities |-> [furnace |-> 4]]]]]
      [] group = "pollution" ->
           [surfaces |-> [s \in p["surfaces"] |->
              [pollution |-> [total |-> 9, consumption |-> [tree |-> 1],
                              production |-> [furnace |-> 6]]]]]

\* FactorioTimeCollector.collect
RconTimeRaises(m) ==
    \/ ~HasKey(m, "time")
    \/ ~HasKey(m["time"], "ticks")
    \/ \E k \in {"current", "played", "paused"} : ~HasKey(m["time"]["ticks"], k)
    \/ ~HasKey(m, "surfaces")
    \/ \E s \in DOMAIN m["surfaces"] :
         \/ ~HasKey(m["surfaces"][s], "time")
         \/ ~HasKey(m["surfaces"][s]["time"], "ticks_per_day")

RconTimeFamilies(m) ==
    << GaugeValue("factorio_game_tick", m["time"]["ticks"]["current"]),
       GaugeValue("factorio_game_ticks_played", m["time"]["ticks"]["played"]),
       GaugeValue("factorio_game_tick_paused", m["time"]["ticks"]["paused"]),
       Family("factorio_surface_ticks_per_day", "gauge", << "surface" >>,
              ForEach(m["surfaces"], LAMBDA s :
                << Sample(<< s >>, m["surfaces"][s]["time"]["ticks_per_day"]) >>)) >>

\* FactorioPlayerCollector.collect
RconPlayerRaises(m) ==
    \/ ~HasKey(m, "players")
    \/ \E u \in DOMAIN m["players"] : ~HasKey(m["players"][u], "connected")

RconPlayerFamilies(m) ==
    << Family("factorio_player_connected", "gauge", << "username" >>,
              ForEach(m["players"], LAMBDA u :
                << Sample(<< u >>, IntOf(m["players"][u]["connected"])) >>)) >>

\* FactorioLaunchesCollector.collect
LaunchesRaises(m) ==
    \/ ~HasKey(m, "forces")
    \/ \E f \in DOMAIN m["forces"] :
         \/ ~HasKey(m["forces"][f], "launches")
         \/ ~HasKey(m["forces"][f]["launches"], "count")
         \/ ~HasKey(m["forces"][f]["launches"], "items")

LaunchesFamilies(m) ==
    << Family("factorio_rockets_launched", "gauge", << "force" >>,
              ForEach(m["forces"], LAMBDA f :
                << Sample(<< f >>, m["forces"][f]["launches"]["count"]) >>)),
       Family("factorio_items_launched", "gauge", << "force", "name" >>,
              ForEach(m["forces"], LAMBDA f :
                ForEach(m["forces"][f]["launches"]["items"], LAMBDA n :
                  << Sample(<< f, n >>, m["forces"][f]["launches"]["items"][n]) >>))) >>

\* FactorioProductionCollector.collect
ProductionRaises(m) ==
    \/ ~HasKey(m, "forces")
    \/ \E f \in DOMAIN m["forces"] : \E s \in DOMAIN m["forces"][f] :
         \/ ~HasKey(m["forces"][f][s], "prototypes")
         \/ \E q \in DOMAIN m["forces"][f][s]["prototypes"] :
              \E k \in {"type", "consumption", "production"} :
                ~HasKey(m["forces"][f][s]["prototypes"][q], k)

\* the samples one of the two counter families gets: field is "consumption"
\* or "production"
ProductionSamples(m, field) ==
    ForEach(m["forces"], LAMBDA f :
      ForEach(m["forces"][f], LAMBDA s :
        ForEach(m["forces"][f][s]["prototypes"], LAMBDA q :
          << Sample(<< f, q, s, m["forces"][f][s]["prototypes"][q]["type"] >>,
                    m["forces"][f][s]["prototypes"][q][field]) >>)))

ProductionFamilies(m) ==
    << Family("factorio_force_prototype_consumption", "counter",
              << "force", "prototype", "surface", "type" >>,
              ProductionSamples(m, "consumption")),
       Family("factorio_force_prototype_production", "counter",
              << "force", "prototype", "surface", "type" >>,
              ProductionSamples(m, "production")) >>

\* FactorioEntityCollector.collect
RconEntityRaises(m) ==
    \/ ~HasKey(m, "forces")
    \/ \E f \in DOMAIN m["forces"] : \E s \in DOMAIN m["forces"][f] :
         ~HasKey(m["forces"][f][s], "entities")

RconEntityFamilies(m) ==
    << Family("factorio_entity_count", "gauge", << "force", "name", "surface" >>,
              ForEach(m["forces"], LAMBDA f :
                ForEach(m["forces"][f], LAMBDA s :
                  ForEach(m["forces"][f][s]["entities"], LAMBDA e :
                    << Sample(<< f, e, s >>, m["forces"][f][s]["entities"][e]) >>)))) >>

\* FactorioPollutionCollector.collect
RconPollutionRaises(m) ==
    \/ ~HasKey(m, "surfaces")
    \/ \E s \in DOMAIN m["surfaces"] :
         \/ ~HasKey(m["surfaces"][s], "pollution")
         \/ \E k \in {"total", "consumption", "production"} :
              ~HasKey(m["surfaces"][s]["pollution"], k)

RconPollutionFamilies(m) ==
    << Family("factorio_surface_pollution_total", "gauge", << "surface" >>,
              ForEach(m["surfaces"], LAMBDA s :
                << Sample(<< s >>, m["surfaces"][s]["pollution"]["total"]) >>)),
       Family("factorio_pollution_consumption", "gauge", << "source", "surface" >>,
              ForEach(m["surfaces"], LAMBDA s :
                ForEach(m["surfaces"][s]["pollution"]["consumption"], LAMBDA e :
                  << Sample(<< e, s >>, m["surfaces"][s]["pollution"]["consumption"][e]) >>))),
       Family("factorio_pollution_production", "gauge", << "source", "surface" >>,
              ForEach(m["surfaces"], LAMBDA s :
                ForEach(m["surfaces"][s]["pollution"]["production"], LAMBDA e :
                  << Sample(<< e, s >>, m["surfaces"][s]["pollution"]["production"][e]) >>))) >>

RconGroupRaises(group, m) ==
    CASE group = "time"       -> RconTimeRaises(m)
      [] group = "player"     -> RconPlayerRaises(m)
      [] group = "launches"   -> LaunchesRaises(m)
      [] group = "research"   -> ResearchRaises(m)
      [] group = "production" -> ProductionRaises(m)
      [] group = "entities"   -> RconEntityRaises(m)
      [] group = "pollution"  -> RconPollutionRaises(m)

RconGroupFamilies(group, m) ==
    CASE group = "time"       -> RconTimeFamilies(m)
      [] group = "player"     -> RconPlayerFamilies(m)
      [] group = "launches"   -> LaunchesFamilies(m)
      [] group = "research"   -> ResearchFamilies(m)
      [] group = "production" -> ProductionFamilies(m)
      [] group = "entities"   -> RconEntityFamilies(m)
      [] group = "pollution"  -> RconPollutionFamilies(m)

NotApplied == [design |-> "none", group |-> "none"]
Applied(design, group) == [design |-> design, group |-> group]

InitTranslate ==
    /\ params \in Params
    /\ applied = NotApplied
    /\ output = << >>
    /\ failed = FALSE

\* one translator of src/exporter.py runs over the snapshot
TranslateGroup(g) ==
    /\ applied = NotApplied
    /\ applied' = Applied("file", g)
    /\ failed' = GroupRaises(g, Snapshot(params))
    /\ output' = IF GroupRaises(g, Snapshot(params))
                 THEN << >>
                 ELSE GroupFamilies(g, Snapshot(params))
    /\ UNCHANGED params
    /\ UNCHANGED << fileVars, rconVars >>

\* the collector of one group of src/collection/collectors.py runs over the
\* metrics of its reply
CollectGroup(group) ==
    /\ applied = NotApplied
    /\ applied' = Applied("rcon", group)
    /\ failed' = RconGroupRaises(group, RconMetrics(group, params))
    /\ output' = IF RconGroupRaises(group, RconMetrics(group, params))
                 THEN << >>
                 ELSE RconGroupFamilies(group, RconMetrics(group, params))
    /\ UNCHANGED params
    /\ UNCHANGED << fileVars, rconVars >>

NextTranslate ==
    \/ \E i \in 1..Len(Groups) : TranslateGroup(Groups[i])
    \/ \E i \in 1..Len(RconGroups) : CollectGroup(RconGroups[i])

(***************************************************************************)
(* The specifications.                                                     *)
(***************************************************************************)
\* the exporters run as processes: no translator is taken alone
Init == InitFile /\ InitRcon /\ InitTranslate /\ params = NoParams

\* the file-source exporter: no RCON design runs in its process
Spec == Init /\ [][NextFile]_vars

\* the RCON exporter: no file-source collector runs in its process
InitRconOnly == Init /\ metrics_file = Missing

SpecRcon == InitRconOnly /\ [][NextRcon]_vars

\* the threads of the RCON exporter are scheduled: a step of a thread that
\* stays possible is taken.  threading.Lock has no queue: a thread whose
\* acquire is possible again and again, but not continuously, is promised
\* nothing.  The script files are modified from outside, or not.
RconFairness ==
    /\ \A c \in Commanders :
          /\ WF_vars(CtorRead(c)) /\ WF_vars(CtorAssign(c))
          /\ WF_vars(ObsRead(c)) /\ WF_vars(ObsAssign(c))
    /\ WF_vars(AutopauserInit) /\ WF_vars(PacerStart)
    /\ WF_vars(PacerSend) /\ WF_vars(PacerReply) /\ WF_vars(PacerSleep)
    /\ \A r \in RconScrapes :
          /\ WF_vars(RawSend(r)) /\ WF_vars(RawReply(r))
          /\ WF_vars(Collect(r)) /\ WF_vars(NextRconScrape(r))

SpecRconFair == SpecRcon /\ RconFairness

\* the translators as functions: every generated document, every translator
InitTranslateOnly == InitFile /\ metrics_file = Missing /\ InitRcon /\ InitTranslate

SpecTranslate == InitTranslateOnly /\ [][NextTranslate]_vars

(***************************************************************************)
(* Properties of the file-source collector.                                *)
(***************************************************************************)
\* the scrape has yielded its error metric
Reported(s) == pc[s] \in {"yielded", "translating", "done"}

\* every family the translators yield for document d, in order
AllFamilies(d) ==
    Flatten([i \in 1..Len(Groups) |-> GroupFamilies(Groups[i], d)])

NoGroupRaises(d) == \A i \in 1..Len(Groups) : ~GroupRaises(Groups[i], d)

\* C1: a scrape whose acquisition failed (missing or protected file,
\* malformed JSON) emits exactly one factorio_exporter_error sample with
\* value 1 and nothing else, whatever scrapes preceded it.
C1_FailedScrapeEmitsOnlyError ==
    \A s \in Scrapes :
        (Reported(s) /\ ~success[s]) =>
            emitted[s] = << ExporterErrorMetric(FALSE) >>

\* C6: the snapshot a scrape translates is the one this same scrape
\* acquired, never one another scrape stored in metrics_data meanwhile.
C6_TranslatesOwnSnapshot ==
    \A s \in Scrapes :
        (pc[s] \in {"translating", "done"} /\ success[s]) =>
            source[s] = acquired[s]

\* C7: for a snapshot without the players key, the scrape still emits every
\* other group's families with the snapshot's values, and
\* factorio_player_connected is absent or has no samples.
C7_MissingPlayersIsolated ==
    \A s \in Scrapes :
        (pc[s] = "done" /\ success[s] /\ source[s] = DocNoPlayers) =>
            /\ \A g \in {"time", "force", "pollution", "surface", "entity", "rocket"} :
                 \A i \in 1..Len(GroupFamilies(g, DocNoPlayers)) :
                   \E j \in 1..Len(emitted[s]) :
                     emitted[s][j] = GroupFamilies(g, DocNoPlayers)[i]
            /\ \A j \in 1..Len(emitted[s]) :
                 emitted[s][j]["name"] = "factorio_player_connected" =>
                     emitted[s][j]["samples"] = << >>

\* C8: a scrape over the round-trip snapshot completes without error and
\* emits factorio_game_tick 42, factorio_exporter_error 0 and player, force,
\* surface and pollution families without samples.
C8_RoundTripCompletes ==
    \A s \in Scrapes :
        (pc[s] = "done" /\ success[s] /\ source[s] = DocRoundTrip) =>
            /\ ~raised[s]
            /\ \E j \in 1..Len(emitted[s]) :
                 emitted[s][j] = GaugeValue("factorio_game_tick", 42)
            /\ \E j \in 1..Len(emitted[s]) :
                 emitted[s][j] = ExporterErrorMetric(TRUE)
            /\ \A j \in 1..Len(emitted[s]) :
                 emitted[s][j]["name"] \in
                     { "factorio_player_connected",
                       "factorio_force_prototype_consumption",
                       "factorio_force_prototype_production",
                       "factorio_force_research_progress",
                       "factorio_pollution_production",
                       "factorio_surface_pollution_total",
                       "factorio_surface_ticks_per_day" } =>
                     emitted[s][j]["samples"] = << >>

\* C9: the lock that guards the shared acquisition state is released before
\* translation begins: no scrape holds it while its translators run or are
\* suspended between two yields.
C9_LockReleasedBeforeTranslation ==
    \A s \in Scrapes : pc[s] = "translating" => metrics_lock # s

\* C10: when acquisition succeeds, the factorio_exporter_error sample with
\* value 0 comes after all the samples of the translators, so a scrape that
\* has emitted it has emitted its complete sample set.
C10_HealthAfterAllSamples ==
    \A s \in Scrapes :
        \A j \in 1..Len(emitted[s]) :
            emitted[s][j] = ExporterErrorMetric(TRUE) =>
                /\ NoGroupRaises(acquired[s])
                /\ SubSeq(emitted[s], 1, j - 1) = AllFamilies(acquired[s])

(***************************************************************************)
(* Properties of the RCON design.                                          *)
(***************************************************************************)
\* C2: with concurrent scrapes and the autopauser running, every
\* send_command is made by the holder of RCON_CLIENT_LOCK, so at most one
\* send/receive on the shared client is in progress at any time.
C2_SendsNeverOverlap ==
    /\ Cardinality(inflight) <= 1
    /\ \A t \in inflight : rcon_lock = t

\* a scrape is inside send_command while the autopauser's thread and
\* another scrape both want the lock
C2_Witness ==
    \E r \in RconScrapes :
        /\ inflight = {r}
        /\ pacer_pc = "acquire"
        /\ \E q \in RconScrapes \ {r} : rpc[q] = "idle"

\* no rebuild of the commander's command is running or queued
Quiet(c) == ctor[c] = "done" /\ obs[c] = "idle" /\ pending[c] = 0

\* C3: whatever way the rebuilds of the watcher and of __init__ interleave
\* with the modifications, once they are over the command is the prefix
\* followed by the final content of the script.
C3_FinalContentReflected ==
    \A c \in Commanders :
        (Quiet(c) /\ script[c]["kind"] = "file") =>
            command[c] = BuildCommand(script[c]["text"])

\* C4: the autopauser's loop never ends, also after a send that failed.
C4_PacerNeverTerminates == pacer_pc # "terminated"

\* C5: a reload that cannot read the script does not let the failure out of
\* the handler and leaves the reloader able to serve later events.
C5_ReloadFailureContained ==
    \A c \in Commanders : ~escaped[c] /\ obs[c] # "dead"


\* C11: once the observer completed a reload of content C, every send the
\* commander begins afterwards (pacer send or scrape send) carries exactly
\* "/silent-command " followed by C, until the observer completes its next
\* reload; no later send carries content from before that reload.
C11_SendsCarryLatestReload ==
    [][\A c \in Commanders :
          (sent[c] = NoText /\ sent'[c] # NoText /\ reloaded[c] # NoText)
              => sent'[c] = BuildCommand(reloaded[c])]_vars

\* C13: the delay the autopauser waits between two sends equals the
\* configured interval, which is 100 ms when no interval was given.
C13_SleepsConfiguredInterval ==
    slept["slept"] => slept["ms"] = interval["ms"]


\* C12: whatever scrapes failed before (missing or protected file, malformed
\* JSON), a scrape whose load succeeds over a valid snapshot completes: it
\* emits factorio_exporter_error 0 followed by every family translated from
\* the loaded snapshot, and nothing is left over from the failed scrapes: no
\* finished scrape holds the lock and the error flag is this scrape's own.
C12_RecoversAfterFailedScrapes ==
    /\ \A s \in Scrapes :
          (pc[s] = "done" /\ success[s] /\ NoGroupRaises(source[s])) =>
              /\ ~raised[s]
              /\ source[s] \in Docs
              /\ emitted[s] = << ExporterErrorMetric(TRUE) >> \o AllFamilies(source[s])
    /\ \A s \in Scrapes :
          (Reported(s) /\ success[s]) => emitted[s][1] = ExporterErrorMetric(TRUE)
    /\ metrics_lock # NoOne => pc[metrics_lock] = "translating"

\* a scrape failed while no document was stored yet (so it ended before any
\* successful load), and a later scrape over the corrected file is complete
C12_Witness ==
    \E s, t \in Scrapes :
        /\ pc[t] = "done" /\ ~success[t] /\ raised[t] /\ source[t] = EmptyDict
        /\ pc[s] = "done" /\ success[s] /\ acquired[s] = DocFull
        /\ source[s] = DocFull
        /\ emitted[s] = << ExporterErrorMetric(TRUE) >> \o AllFamilies(DocFull)
        /\ metrics_lock = NoOne

\* the step completes the load of scrape s: __load_metrics_data returned
LoadReturns(s) == pc[s] \in {"idle", "opened"} /\ pc'[s] = "yielded"

\* C18: a load that fails (file not found, permission denied, JSON decode
\* error) returns False and leaves metrics_data as it was; metrics_data
\* changes only in a load that returns True.
C18_FailedLoadKeepsMetricsData ==
    [][/\ \A s \in Scrapes :
            LoadReturns(s) =>
                /\ (pc[s] = "idle" => ~success'[s])
                /\ ((pc[s] = "opened" /\ \A t \in ReadableTexts(s) : ~ParseOk(t))
                        => ~success'[s])
                /\ (~success'[s] => metrics_data' = metrics_data)
       /\ metrics_data' # metrics_data =>
              \E s \in Scrapes : LoadReturns(s) /\ success'[s]
                                  /\ metrics_data' = acquired'[s]]_vars

\* a load failed while a document of an earlier load was stored
C18_Witness ==
    \E s \in Scrapes :
        pc[s] = "yielded" /\ ~success[s] /\ metrics_data = DocFull


(***************************************************************************)
(* Properties of the translators taken alone.                              *)
(***************************************************************************)
\* the values a label of the given key takes in the generated documents
LabelValues(key) ==
    CASE key = "force"     -> ForceNames
      [] key = "surface"   -> SurfaceNames
      [] key = "type"      -> {"fluids", "items"}
      [] key = "prototype" -> {"water", "iron-plate"}
      [] key = "name"      -> {"furnace", "satellite"}
      [] key = "source"    -> {"furnace", "tree"}
      [] key = "username"  -> {"alice", "bob"}

\* every sample has one label value per declared key, each the value of
\* the key declared at its position
WellLabelled(family) ==
    \A i \in 1..Len(family["samples"]) :
        /\ Len(family["samples"][i]["labels"]) = Len(family["labelkeys"])
        /\ \A j \in 1..Len(family["labelkeys"]) :
             j <= Len(family["samples"][i]["labels"]) =>
                 family["samples"][i]["labels"][j] \in LabelValues(family["labelkeys"][j])

HasRun == applied # NotApplied /\ ~failed

\* C14: for every snapshot a translator accepts, every sample of every
\* family it emits has a label tuple of the declared length, its values in
\* the order of the declared keys.
C14_LabelArityMatches ==
    HasRun => \A k \in 1..Len(output) : WellLabelled(output[k])

\* the force translator labelled samples of two forces on two surfaces
C14_Witness ==
    /\ applied = Applied("file", "force")
    /\ ~failed
    /\ params["surfaces"] = SurfaceNames
    /\ params["forces"] = ForceNames
    /\ Len(output[1]["samples"]) = 8
    /\ output[1]["samples"][1]["labels"] = << "player", "water", "nauvis", "fluids" >>

\* the family of the given name in the output
FamilyNamed(name) ==
    output[CHOOSE k \in 1..Len(output) : output[k]["name"] = name]

\* the family has exactly one sample per force of F, labelled with the force
OneSamplePerForce(family, F) ==
    /\ Len(family["samples"]) = Cardinality(F)
    /\ \A f \in F : \E i \in 1..Len(family["samples"]) :
           family["samples"][i]["labels"] = << f >>

\* C15: the force translation emits exactly one
\* factorio_force_research_progress sample for each force that has a
\* research entry, whatever the number of surfaces: never none, never two
\* samples with the same force label.
C15_OneResearchSamplePerForce ==
    (applied = Applied("file", "force") /\ ~failed) =>
        OneSamplePerForce(FamilyNamed("factorio_force_research_progress"),
                          params["research"])

\* C16: the rocket translation emits exactly one factorio_rockets_launched
\* sample for each force of the forces map, labelled with the force, and
\* none for another force, whether or not a force named player exists.
C16_OneLaunchSamplePerForce ==
    applied = Applied("file", "rocket") =>
        /\ ~failed
        /\ OneSamplePerForce(FamilyNamed("factorio_rockets_launched"),
                             params["forces"])


\* C17: while the autopauser loop runs, a scrape that requests
\* RCON_CLIENT_LOCK eventually holds it and sends: the pacer, which takes
\* the lock again in every iteration, does not keep the scrape out forever.
\* (Stated for the pacer alone: a wait that ends because another scrape got
\* the lock, or because the loop ended, is not held against it.)
C17_WaitingScrapeEventuallySends ==
    \A r \in RconScrapes :
        (rpc[r] = "idle" /\ ctor[Collector] = "done")
            ~> \/ rpc[r] = "sending"
               \/ pacer_pc = "terminated"
               \/ \E q \in RconScrapes \ {r} : rpc[q] = "sending"

=============================================================================
